---------------------------- MODULE Spec2Model ----------------------------
(***************************************************************************)
(* A model of the deterministic core of the EbookAI client:                *)
(*   - AIService.analyzeContent and its helpers (src/lib/aiService.js),    *)
(*   - CostEstimator.calculateCost of the service (src/lib/aiService.js),  *)
(*   - the CostEstimator React component (components/CostEstimator.jsx).   *)
(*                                                                         *)
(* Strings are sequences of characters.  The character classes the code    *)
(* distinguishes are kept: word characters, white space, the sentence      *)
(* terminators . ! ?, and the markup markers that String.includes looks    *)
(* for; a marker is one symbol of the alphabet since it never contains     *)
(* white space or a terminator.                                            *)
(*                                                                         *)
(* Money is counted in nano-dollars (1e-9 USD) so that every amount the    *)
(* code computes from its pricing tables is an integer.  Token prices are  *)
(* kept per 1000 tokens in units of 1e-5 USD; (tokens * 0.3 / 1000) * p    *)
(* dollars is then tokens * 3 * p nano-dollars.                            *)
(***************************************************************************)
EXTENDS Integers, Sequences, FiniteSets, TLC

VARIABLES
    content,           \* the string handed to analyzeContent
    metrics,           \* what analyzeContent returned for it, or NotAnalyzed
    svcCall,           \* arguments and result of the last calculateCost call
    bookData,          \* component prop: TRUE when a bookData object is passed
    chapters,          \* component prop: per chapter, its number of topics
    selectedProvider,  \* component prop
    selectedModel,     \* component prop
    ragEnabled,        \* component prop
    estimate,          \* component state (useState)
    isExpanded,        \* component state (useState)
    mounted,           \* the mount effect has run
    computed,          \* the last run of calculateEstimate reached setEstimate
    sugCall,           \* arguments and result of generateOptimizationSuggestions
    \* ABTestingPanel
    variations,        \* panel state (useState)
    selectedVariation, \* panel state (useState)
    showComparison,    \* panel state (useState)
    isGenerating,      \* panel prop
    inFlight,          \* onGenerateVariations calls not yet settled
    \* server: the ragService singleton and the requests being handled
    openai,            \* the API key of ragService.openai, or NULL
    assistants,        \* bookIds with an entry in ragService.assistants
    threads,           \* ragService.threads as pairs <<bookId, thread id>>
    uploadedFiles,     \* bookIds with files in ragService.uploadedFiles
    threadTop,         \* vendor side: per thread id, its newest message
    reqs,              \* per request slot: position, book, client keys used
    \* useAutoSave
    data,              \* hook argument
    enabled,           \* option
    stableCallbacks,   \* the caller passes memoised saveFunction/onSave/onError
    online,            \* isOnlineRef.current
    hasUnsavedChanges, \* hook state
    isAutoSaving,      \* hook state
    saveError,         \* hook state
    lastDataRef,       \* lastDataRef.current
    timeoutRef,        \* timeoutRef.current: a timer id, 0 for null
    timers,            \* pending setTimeout timers with the data they captured
    saving,            \* saveFunction calls not yet settled, with their data
    renderPending,     \* a state update has scheduled a re-render
    changed,           \* the effect has seen a data change since mount
    lastSaveArg,       \* the argument of the latest saveFunction call
    savedLatest,       \* saveFunction was called with the data since it changed
    lastSavedData,     \* the argument of the latest saveFunction call that resolved
    genCall,           \* arguments and result of the last generateContent call
    editorChapters,    \* BookEditor: the chapters state, one entry per topic
    generating,        \* BookEditor: the generating state
    generatingTopicId, \* BookEditor: the generatingTopicId state, 0 for null
    generatingAll,     \* BookEditor: the generatingAll state
    single,            \* the running generateTopicContent call
    all,               \* the running generateAllContent call
    succeeded,         \* topics generated and stored by the latest generateAllContent
    isVisible,         \* ProgressTracker: the isVisible prop
    progress,          \* ProgressTracker: progress, in 1/totalDuration percent
    steps,             \* ProgressTracker: the steps state
    trackerStatus,     \* ProgressTracker: the status state
    chains             \* ProgressTracker: the timer chains started by the effect

scoreVars == <<content, metrics>>
svcVars   == <<svcCall>>
compVars  == <<bookData, chapters, selectedProvider, selectedModel,
               ragEnabled, estimate, isExpanded, mounted, computed>>
sugVars   == <<sugCall>>
abVars    == <<variations, selectedVariation, showComparison, isGenerating,
               inFlight>>
srvVars   == <<openai, assistants, threads, uploadedFiles, threadTop, reqs>>
saveVars  == <<data, enabled, stableCallbacks, online, hasUnsavedChanges,
               isAutoSaving, saveError, lastDataRef, timeoutRef, timers,
               saving, renderPending, changed, lastSaveArg, savedLatest,
               lastSavedData>>
genVars   == <<genCall>>
edVars    == <<editorChapters, generating, generatingTopicId, generatingAll,
              single, all, succeeded>>
progVars  == <<isVisible, progress, steps, trackerStatus, chains>>
restVars  == <<genVars, edVars, progVars>>
laterVars == <<sugVars, abVars, srvVars, saveVars, restVars>>

vars == <<scoreVars, svcVars, compVars, laterVars>>

-----------------------------------------------------------------------------
(* Bounds *)

MaxLen == 3        \* every string over the alphabet up to this length
MaxWords == 52     \* running text of up to this many words
MaxStops == 2      \* with up to this many sentence terminators inside
MaxChapters == 2   \* chapters passed to the component
MaxTopics == 1     \* topics per chapter

-----------------------------------------------------------------------------
(* JavaScript values *)

NULL == "null"
UNDEFINED == "undefined"
\* absent values, as records so that they compare with records
NotAnalyzed == [analyzed |-> FALSE]
NoCall == [called |-> FALSE]

\* A JavaScript number that is an integer or a half: num / den, den in {1,2}.
Num(n) == [num |-> n, den |-> 1]

HalfOf(n) == IF n % 2 = 0 THEN [num |-> n \div 2, den |-> 1]
                          ELSE [num |-> n, den |-> 2]

IsInteger(q) == q.den = 1

\* Math.round: the nearest integer, halves rounded up.
MathRound(q) == (2 * q.num + q.den) \div (2 * q.den)

-----------------------------------------------------------------------------
(* Strings *)

WordChar == "w"
Whitespace == {" ", "\n"}
Terminators == {".", "?"}
Markers == {"<h2>", "<h3>", "<ul>", "<ol>", "<blockquote>"}
Alphabet == {WordChar} \cup Whitespace \cup Terminators \cup Markers

RECURSIVE StringsUpTo(_)
StringsUpTo(n) ==
    IF n = 0 THEN {<<>>}
    ELSE LET shorter == StringsUpTo(n - 1)
         IN  shorter \cup {Append(s, c) : s \in shorter, c \in Alphabet}

\* Running text: nw words separated by single blanks, the first ns of them
\* (but not the last word) followed by a full stop: "w. w. w w w".
RunningText(nw, ns) ==
    LET m == IF ns < nw - 1 THEN ns ELSE nw - 1
    IN  [i \in 1..(3 * m + 2 * (nw - m) - 1) |->
            IF i <= 3 * m
            THEN CASE (i - 1) % 3 = 0 -> WordChar
                   [] (i - 1) % 3 = 1 -> "."
                   [] OTHER -> " "
            ELSE IF (i - 3 * m) % 2 = 1 THEN WordChar ELSE " "]

\* Markup only: the markers of a given set, in document order.
MarkerOrder == <<"<h2>", "<h3>", "<ul>", "<ol>", "<blockquote>">>

MarkerText(S) ==
    LET Chosen(m) == m \in S
    IN  SelectSeq(MarkerOrder, Chosen)

Contents ==
    StringsUpTo(MaxLen)
    \cup {RunningText(nw, ns) : nw \in 1..MaxWords, ns \in 0..MaxStops}
    \cup {MarkerText(S) : S \in SUBSET Markers}

\* String.prototype.split with a separator pattern of the form [class]+ :
\* the pieces between maximal runs of separator characters, empty pieces
\* included (before a leading run, after a trailing run, the whole of "").
split(s, Sep) ==
    LET starts == {i \in 1..Len(s) :
                      s[i] \in Sep /\ (i = 1 \/ s[i - 1] \notin Sep)}
        ends == {i \in 1..Len(s) :
                    s[i] \in Sep /\ (i = Len(s) \/ s[i + 1] \notin Sep)}
        n == Cardinality(starts)
        kth(S, k) == CHOOSE i \in S : Cardinality({j \in S : j <= i}) = k
        from(k) == IF k = 1 THEN 1 ELSE kth(ends, k - 1) + 1
        to(k) == IF k = n + 1 THEN Len(s) ELSE kth(starts, k) - 1
    IN  [k \in 1..(n + 1) |-> SubSeq(s, from(k), to(k))]

\* String.prototype.includes for a marker
includes(s, marker) == \E i \in 1..Len(s) : s[i] = marker

-----------------------------------------------------------------------------
(* AIService: content analysis (src/lib/aiService.js) *)

\* const sentences = content.split(/[.!?]+/).length
sentenceCount(c) == Len(split(c, Terminators))

\* const words = content.split(/\s+/).length
wordCount(c) == Len(split(c, Whitespace))

readabilityBandStrictUpper(words, sentences) ==
    IF words >= 15 * sentences /\ words < 20 * sentences THEN 90
    ELSE IF words >= 10 * sentences /\ words < 25 * sentences THEN 75
    ELSE 60

\* The score of an average of words / sentences words per sentence; the
\* comparisons with the band limits are cross-multiplied (sentences >= 1).
readabilityBand(words, sentences) ==
    IF words >= 15 * sentences /\ words <= 20 * sentences THEN 90
    ELSE IF words >= 10 * sentences /\ words <= 25 * sentences THEN 75
    ELSE 60

calculateReadabilityScore(c) ==
    readabilityBand(wordCount(c), sentenceCount(c))

analyzeStructureCountingBothLists(c) ==
    LET score == 50 + (IF includes(c, "<h2>") THEN 15 ELSE 0)
                    + (IF includes(c, "<h3>") THEN 15 ELSE 0)
                    + (IF includes(c, "<ul>") THEN 10 ELSE 0)
                    + (IF includes(c, "<ol>") THEN 10 ELSE 0)
                    + (IF includes(c, "<blockquote>") THEN 10 ELSE 0)
    IN  IF score < 100 THEN score ELSE 100

analyzeStructure(c) ==
    LET hasH2 == includes(c, "<h2>")
        hasH3 == includes(c, "<h3>")
        hasList == includes(c, "<ul>") \/ includes(c, "<ol>")
        hasBlockquote == includes(c, "<blockquote>")
        score == 50 + (IF hasH2 THEN 15 ELSE 0)
                    + (IF hasH3 THEN 15 ELSE 0)
                    + (IF hasList THEN 10 ELSE 0)
                    + (IF hasBlockquote THEN 10 ELSE 0)
    IN  IF score < 100 THEN score ELSE 100

analyzeContentNoHalving(c) ==
    LET readabilityScore == calculateReadabilityScore(c)
        structureScore == analyzeStructure(c)
    IN  [wordCount |-> wordCount(c),
         readabilityScore |-> readabilityScore,
         structureScore |-> structureScore,
         overallScore |-> Num(readabilityScore + structureScore)]

analyzeContent(c) ==
    LET readabilityScore == calculateReadabilityScore(c)
        structureScore == analyzeStructure(c)
    IN  [wordCount |-> wordCount(c),
         readabilityScore |-> readabilityScore,
         structureScore |-> structureScore,
         overallScore |-> HalfOf(readabilityScore + structureScore)]

\* A caller (generateContentVariations) awaits analyzeContent(content).
AnalyzeContent ==
    /\ metrics = NotAnalyzed
    /\ metrics' = analyzeContent(content)
    /\ UNCHANGED <<content, svcVars, compVars, laterVars>>

-----------------------------------------------------------------------------
(* AIService.generateOptimizationSuggestions (src/lib/aiService.js) *)

\* The metrics argument is whatever the caller passes; the values on both
\* sides of each threshold are enough.
SuggestionMetrics ==
    [wordCount : {0, 299, 300}, readabilityScore : {60, 75, 90},
     structureScore : {50, 65, 70, 100}]

SuggestionContents == StringsUpTo(1) \cup {MarkerText(S) : S \in SUBSET Markers}

\* the objects pushed by the four rules (the message text follows from type
\* and priority)
LengthSuggestion == [type |-> "length", priority |-> "high"]
ReadabilitySuggestion == [type |-> "readability", priority |-> "medium"]
StructureSuggestion == [type |-> "structure", priority |-> "medium"]
SubsectionSuggestion == [type |-> "structure", priority |-> "low"]

generateOptimizationSuggestionsStructureFirst(c, m) ==
    (IF m.wordCount < 300 THEN <<LengthSuggestion>> ELSE <<>>)
    \o (IF m.structureScore < 70 THEN <<StructureSuggestion>> ELSE <<>>)
    \o (IF m.readabilityScore < 70 THEN <<ReadabilitySuggestion>> ELSE <<>>)
    \o (IF ~includes(c, "<h3>") THEN <<SubsectionSuggestion>> ELSE <<>>)

generateOptimizationSuggestions(c, m) ==
    (IF m.wordCount < 300 THEN <<LengthSuggestion>> ELSE <<>>)
    \o (IF m.readabilityScore < 70 THEN <<ReadabilitySuggestion>> ELSE <<>>)
    \o (IF m.structureScore < 70 THEN <<StructureSuggestion>> ELSE <<>>)
    \o (IF ~includes(c, "<h3>") THEN <<SubsectionSuggestion>> ELSE <<>>)

GenerateOptimizationSuggestions ==
    /\ sugCall = NoCall
    /\ \E c \in SuggestionContents, m \in SuggestionMetrics :
          sugCall' = [content |-> c, metrics |-> m,
                      result |-> generateOptimizationSuggestions(c, m)]
    /\ UNCHANGED <<scoreVars, svcVars, compVars, restVars, abVars, srvVars, saveVars>>

-----------------------------------------------------------------------------
(* Pricing (the same table in aiService.js and in CostEstimator.jsx).       *)
(* input / output: 1e-5 USD per 1000 tokens; image: nano-dollars per image. *)

pricing ==
    ("openai" :>
        (  ("gpt-4-turbo-preview" :> [input |-> 1000, output |-> 3000])
        @@ ("gpt-4" :> [input |-> 3000, output |-> 6000])
        @@ ("gpt-3.5-turbo" :> [input |-> 150, output |-> 200])
        @@ ("dall-e-3" :> [image |-> 40000000]) ))
    @@
    ("anthropic" :>
        (  ("claude-3-opus" :> [input |-> 1500, output |-> 7500])
        @@ ("claude-3-sonnet" :> [input |-> 300, output |-> 1500])
        @@ ("claude-3-haiku" :> [input |-> 25, output |-> 125]) ))
    @@
    ("stabilityai" :>
        ("stable-diffusion" :> [image |-> 18000000]))

\* The providers and text models a user can select (ModelSelector offers
\* openai, anthropic and openrouter; the server also lists models such as
\* gpt-4o that the table does not price).  The image models are never
\* offered as text models.  calculateCost also knows the image provider
\* stabilityai.
SelectableProviders == {"openai", "anthropic", "openrouter"}
Providers == SelectableProviders \cup {"stabilityai"}
Models == {"gpt-4", "claude-3-haiku", "gpt-4o"}

\* this.pricing[provider] && this.pricing[provider][model]
HasPricing(provider, model) ==
    /\ provider \in DOMAIN pricing
    /\ model \in DOMAIN pricing[provider]

\* x * 1.2 and x * 0.2; every amount is a multiple of 5 nano-dollars.
Times12(x) == x + x \div 5
Times02(x) == x \div 5

TextCostSplitSwapped(textTokens, modelPricing) ==
    textTokens * 7 * modelPricing.input + textTokens * 3 * modelPricing.output

\* (textTokens * 0.3 / 1000) * input + (textTokens * 0.7 / 1000) * output
TextCost(textTokens, modelPricing) ==
    textTokens * 3 * modelPricing.input + textTokens * 7 * modelPricing.output

-----------------------------------------------------------------------------
(* CostEstimator.calculateCost of the service (src/lib/aiService.js) *)

TokenVolumes == {0, 1000, 1040, 10000}
ImageCounts == {0, 1, 2, 5}

CostArgs ==
    [provider : Providers, model : Models, textTokens : TokenVolumes,
     images : ImageCounts, ragEnabled : BOOLEAN]

calculateCost(a) ==
    LET text == IF HasPricing(a.provider, a.model)
                THEN TextCost(a.textTokens, pricing[a.provider][a.model])
                ELSE 0
        image == IF a.images > 0
                 THEN IF a.provider = "openai"
                      THEN a.images * pricing["openai"]["dall-e-3"].image
                      ELSE IF a.provider = "stabilityai"
                      THEN a.images
                           * pricing["stabilityai"]["stable-diffusion"].image
                      ELSE 0
                 ELSE 0
        totalCost == text + image
    IN  IF a.ragEnabled THEN Times12(totalCost) ELSE totalCost

CalculateCost ==
    /\ svcCall = NoCall
    /\ \E a \in CostArgs : svcCall' = [args |-> a, result |-> calculateCost(a)]
    /\ UNCHANGED <<scoreVars, compVars, laterVars>>

-----------------------------------------------------------------------------
(* The CostEstimator component (src/components/CostEstimator.jsx) *)

RECURSIVE ChapterListsUpTo(_)
ChapterListsUpTo(n) ==
    IF n = 0 THEN {<<>>}
    ELSE LET shorter == ChapterListsUpTo(n - 1)
         IN  shorter \cup {Append(l, t) : l \in shorter, t \in 0..MaxTopics}

ChapterLists == ChapterListsUpTo(MaxChapters)

\* an object literal {} and the read of a property of an object
EmptyObject == [f \in {} |-> UNDEFINED]
Defined(obj, f) == f \in DOMAIN obj

InitialEstimate ==
    [textCost |-> 0, imageCost |-> 0, ragCost |-> 0, totalCost |-> 0,
     breakdown |-> EmptyObject]

\* chapters.reduce((sum, chapter) => sum + (chapter.topics?.length || 0), 0)
RECURSIVE SumTopics(_)
SumTopics(chs) ==
    IF chs = <<>> THEN 0 ELSE Head(chs) + SumTopics(Tail(chs))

NoUpdate == [updated |-> FALSE]

\* Math.ceil(totalWords * 1.3)
WordsToTokens(totalWords) == (totalWords * 13 + 9) \div 10

\* The body of calculateEstimate after its early returns: the newEstimate
\* passed to setEstimate.
NewEstimate(chs, provider, model, rag) ==
    LET modelPricing == pricing[provider][model]
        totalTopics == SumTopics(chs)
        totalWords == totalTopics * 800
        totalTokens == WordsToTokens(totalWords)
        inputTokens == (totalTokens * 3) \div 10
        outputTokens == (totalTokens * 7) \div 10
        textCost == TextCost(totalTokens, modelPricing)
        totalImages == Len(chs) * 1
        imageCost ==
            IF provider = "openai"
            THEN totalImages * pricing["openai"]["dall-e-3"].image
            ELSE IF provider = "stabilityai"
            THEN totalImages * pricing["stabilityai"]["stable-diffusion"].image
            ELSE 0
        adjustedTextCost == IF rag THEN Times12(textCost) ELSE textCost
        ragCost == IF rag THEN Times02(textCost) ELSE 0
        totalCost == adjustedTextCost + imageCost
    IN  [textCost |-> adjustedTextCost,
         imageCost |-> imageCost,
         ragCost |-> ragCost,
         totalCost |-> totalCost,
         breakdown |-> [totalTopics |-> totalTopics,
                        totalWords |-> totalWords,
                        totalTokens |-> totalTokens,
                        totalImages |-> totalImages,
                        inputTokens |-> inputTokens,
                        outputTokens |-> outputTokens,
                        ragEnabled |-> rag]]

calculateEstimateAddingRagCost(book, chs, provider, model, rag) ==
    IF provider = NULL \/ model = NULL \/ ~book THEN NoUpdate
    ELSE IF ~HasPricing(provider, model) THEN NoUpdate
    ELSE LET e == NewEstimate(chs, provider, model, rag)
         IN  [e EXCEPT !.totalCost = e.textCost + e.imageCost + e.ragCost]

calculateEstimate(book, chs, provider, model, rag) ==
    IF provider = NULL \/ model = NULL \/ ~book THEN NoUpdate
    ELSE IF ~HasPricing(provider, model) THEN NoUpdate
    ELSE NewEstimate(chs, provider, model, rag)

\* useEffect(() => { calculateEstimate() }, [bookData, chapters,
\* selectedProvider, selectedModel, ragEnabled]), run with the new props.
RunEffect ==
    LET r == calculateEstimate(bookData', chapters', selectedProvider',
                               selectedModel', ragEnabled')
    IN  /\ computed' = (r # NoUpdate)
        /\ estimate' = IF r = NoUpdate THEN estimate ELSE r

\* first render: the effect runs once with the initial props
Mount ==
    /\ ~mounted
    /\ mounted' = TRUE
    /\ UNCHANGED <<bookData, chapters, selectedProvider, selectedModel,
                   ragEnabled>>
    /\ RunEffect
    /\ UNCHANGED <<isExpanded, scoreVars, svcVars, laterVars>>

SetBookData ==
    /\ mounted
    /\ \E b \in BOOLEAN : bookData' = b
    /\ UNCHANGED <<chapters, selectedProvider, selectedModel, ragEnabled>>
    /\ RunEffect
    /\ UNCHANGED <<isExpanded, mounted, scoreVars, svcVars, laterVars>>

\* one edit of the table of contents: a chapter added at the end or removed
\* from it, or the topics of one chapter changed
OneEdit(old, new) ==
    \/ Len(new) = Len(old) + 1 /\ SubSeq(new, 1, Len(old)) = old
    \/ Len(old) = Len(new) + 1 /\ SubSeq(old, 1, Len(new)) = new
    \/ /\ Len(new) = Len(old)
       /\ Cardinality({i \in 1..Len(old) : old[i] # new[i]}) = 1

SetChapters ==
    /\ mounted
    /\ \E chs \in ChapterLists : OneEdit(chapters, chs) /\ chapters' = chs
    /\ UNCHANGED <<bookData, selectedProvider, selectedModel, ragEnabled>>
    /\ RunEffect
    /\ UNCHANGED <<isExpanded, mounted, scoreVars, svcVars, laterVars>>

SetSelectedProvider ==
    /\ mounted
    /\ \E p \in SelectableProviders \cup {NULL} : selectedProvider' = p
    /\ UNCHANGED <<bookData, chapters, selectedModel, ragEnabled>>
    /\ RunEffect
    /\ UNCHANGED <<isExpanded, mounted, scoreVars, svcVars, laterVars>>

SetSelectedModel ==
    /\ mounted
    /\ \E m \in Models \cup {NULL} : selectedModel' = m
    /\ UNCHANGED <<bookData, chapters, selectedProvider, ragEnabled>>
    /\ RunEffect
    /\ UNCHANGED <<isExpanded, mounted, scoreVars, svcVars, laterVars>>

SetRagEnabled ==
    /\ mounted
    /\ ragEnabled' = ~ragEnabled
    /\ UNCHANGED <<bookData, chapters, selectedProvider, selectedModel>>
    /\ RunEffect
    /\ UNCHANGED <<isExpanded, mounted, scoreVars, svcVars, laterVars>>

\* the component renders null unless a provider and a model are selected
Rendered == selectedProvider # NULL /\ selectedModel # NULL

\* onClick={() => setIsExpanded(!isExpanded)}
ToggleExpanded ==
    /\ mounted
    /\ Rendered
    /\ isExpanded' = ~isExpanded
    /\ UNCHANGED <<bookData, chapters, selectedProvider, selectedModel,
                   ragEnabled, estimate, mounted, computed, scoreVars,
                   svcVars, laterVars>>

\* The render evaluates estimate.totalCost / estimate.breakdown.totalWords
\* inside the expanded breakdown.
QuotientEvaluated == Rendered /\ isExpanded

-----------------------------------------------------------------------------
(* A/B testing: AIService.generateContentVariations (src/lib/aiService.js)  *)
(* and the ABTestingPanel component.                                        *)

MaxInFlight == 2   \* generation requests that may be pending together

\* handleGenerateVariations asks for 3 variations
PanelVariationCount == 3

\* What a provider may return for a variation: running text of 15 words
\* (readability 90, structure 50), markup with every marker (60, 100), a
\* lone heading (60, 65).
GenContents ==
    {RunningText(15, 0), MarkerText(Markers), <<"<h2>">>}

\* generateWithVariation(basePrompt, variation) resolves to a content or
\* throws; only its call is part of the service.
Threw == [ok |-> FALSE]
generateWithVariation == {[ok |-> TRUE, content |-> c] : c \in GenContents}
                         \cup {Threw}

\* the variation object built for slot i (0-based); temperature in tenths
variationConfig(i) ==
    [id |-> <<"variation-", i + 1>>,
     style |-> IF i = 0 THEN "detailed" ELSE "concise",
     temperature |-> IF i = 0 THEN 7 ELSE 9]

\* The loop of generateContentVariations from slot i on; outcomes[i + 1] is
\* what generateWithVariation does for slot i.
RECURSIVE VariationLoopPrepending(_, _, _, _)
VariationLoopPrepending(i, variationCount, outcomes, acc) ==
    IF i >= variationCount THEN acc
    ELSE IF outcomes[i + 1].ok
    THEN VariationLoopPrepending(i + 1, variationCount, outcomes,
             <<[id |-> variationConfig(i).id,
                style |-> variationConfig(i).style,
                temperature |-> variationConfig(i).temperature,
                content |-> outcomes[i + 1].content,
                metrics |-> analyzeContent(outcomes[i + 1].content)]>>
             \o acc)
    ELSE VariationLoopPrepending(i + 1, variationCount, outcomes, acc)

RECURSIVE VariationLoop(_, _, _, _)
VariationLoop(i, variationCount, outcomes, acc) ==
    IF i >= variationCount THEN acc
    ELSE IF outcomes[i + 1].ok
    THEN VariationLoop(i + 1, variationCount, outcomes,
             Append(acc,
                    [id |-> variationConfig(i).id,
                     style |-> variationConfig(i).style,
                     temperature |-> variationConfig(i).temperature,
                     content |-> outcomes[i + 1].content,
                     metrics |-> analyzeContent(outcomes[i + 1].content)]))
    ELSE VariationLoop(i + 1, variationCount, outcomes, acc)

generateContentVariationsPrepending(variationCount, outcomes) ==
    VariationLoopPrepending(0, variationCount, outcomes, <<>>)

generateContentVariations(variationCount, outcomes) ==
    VariationLoop(0, variationCount, outcomes, <<>>)

\* what onGenerateVariations(topicData, bookContext, 3) may resolve to: one
\* batch for every way the three calls of generateWithVariation may end
GeneratedBatches ==
    {generateContentVariations(PanelVariationCount, outcomes) :
        outcomes \in [1..PanelVariationCount -> generateWithVariation]}

\* useState(null)
NoSelection == [selected |-> FALSE]

\* click on "Generate Variations" (disabled={isGenerating}): the call of
\* onGenerateVariations is started and awaited
ClickGenerate ==
    /\ ~isGenerating
    /\ inFlight < MaxInFlight
    /\ inFlight' = inFlight + 1
    /\ UNCHANGED <<variations, selectedVariation, showComparison,
                   isGenerating>>
    /\ UNCHANGED <<scoreVars, svcVars, compVars, restVars, sugVars, srvVars, saveVars>>

\* the awaited call resolves: setVariations, setShowComparison(true)
GenerationResolves ==
    /\ inFlight > 0
    /\ inFlight' = inFlight - 1
    /\ \E batch \in GeneratedBatches : variations' = batch
    /\ showComparison' = TRUE
    /\ UNCHANGED <<selectedVariation, isGenerating>>
    /\ UNCHANGED <<scoreVars, svcVars, compVars, restVars, sugVars, srvVars, saveVars>>

\* the awaited call rejects: the catch block only logs
GenerationRejects ==
    /\ inFlight > 0
    /\ inFlight' = inFlight - 1
    /\ UNCHANGED <<variations, selectedVariation, showComparison,
                   isGenerating>>
    /\ UNCHANGED <<scoreVars, svcVars, compVars, restVars, sugVars, srvVars, saveVars>>

\* click on a variation card (rendered when variations.length > 0)
SelectVariation ==
    /\ Len(variations) > 0
    /\ \E p \in 1..Len(variations) : selectedVariation' = variations[p]
    /\ UNCHANGED <<variations, showComparison, isGenerating, inFlight>>
    /\ UNCHANGED <<scoreVars, svcVars, compVars, restVars, sugVars, srvVars, saveVars>>

\* click on "Use This Variation" in the preview
UseThisVariation ==
    /\ Len(variations) > 0
    /\ selectedVariation # NoSelection
    /\ showComparison' = FALSE
    /\ UNCHANGED <<variations, selectedVariation, isGenerating, inFlight>>
    /\ UNCHANGED <<scoreVars, svcVars, compVars, restVars, sugVars, srvVars, saveVars>>

\* the parent changes the isGenerating prop (default false)
SetIsGenerating ==
    /\ isGenerating' = ~isGenerating
    /\ UNCHANGED <<variations, selectedVariation, showComparison, inFlight>>
    /\ UNCHANGED <<scoreVars, svcVars, compVars, restVars, sugVars, srvVars, saveVars>>

\* String.fromCharCode(65 + index) of the card at position p (1-based)
CardLabel(p) == 65 + (p - 1)

\* a > b for two scores
Greater(a, b) == a.num * b.den > b.num * a.den

MetricOf(v, category) ==
    IF category = 0 THEN v.metrics.overallScore
    ELSE IF category = 1 THEN Num(v.metrics.readabilityScore)
    ELSE Num(v.metrics.structureScore)

\* variations.reduce((best, current) => current > best ? current : best)
\* from position k on, without an initial value
RECURSIVE ReduceBestLastOfTies(_, _, _, _)
ReduceBestLastOfTies(vs, category, k, best) ==
    IF k > Len(vs) THEN best
    ELSE ReduceBestLastOfTies(vs, category, k + 1,
             IF ~Greater(MetricOf(best, category), MetricOf(vs[k], category))
             THEN vs[k] ELSE best)

RECURSIVE ReduceBest(_, _, _, _)
ReduceBest(vs, category, k, best) ==
    IF k > Len(vs) THEN best
    ELSE ReduceBest(vs, category, k + 1,
             IF Greater(MetricOf(vs[k], category), MetricOf(best, category))
             THEN vs[k] ELSE best)

bestVariationLastOfTies(vs, category) ==
    ReduceBestLastOfTies(vs, category, 2, vs[1])

bestVariation(vs, category) == ReduceBest(vs, category, 2, vs[1])

\* variations.findIndex(v => v.id === id), as a position
findIndex(vs, id) ==
    CHOOSE p \in 1..Len(vs) :
        vs[p].id = id /\ \A q \in 1..(p - 1) : vs[q].id # id

\* the position of the variation a "best of" box names
BestOfPosition(category) ==
    findIndex(variations, bestVariation(variations, category).id)

ABIdle ==
    /\ variations = <<>>
    /\ selectedVariation = NoSelection
    /\ showComparison = FALSE
    /\ isGenerating = FALSE
    /\ inFlight = 0

-----------------------------------------------------------------------------------------------------------------------------------------------------
(* The server: the ragService singleton (server/services/ragService.js) and *)
(* the routes init-rag, generate-rag and DELETE rag that use it.            *)

\* two request slots; the requests of slot r carry the OpenAI key KeyOf(r)
Requests == {1, 2}
KeyOf(r) == IF r = 1 THEN "sk-1" ELSE "sk-2"
Books == {"b1"}

\* ids of vendor threads; a new thread gets an id that is not in use
ThreadIds == 1..3

\* what runs.retrieve may report
RunStatuses == {"queued", "in_progress", "completed", "failed", "cancelled"}

\* a thread message: its role and the request whose prompt or run made it
NoMessage == [role |-> "none", owner |-> 0]
UserMessage(r) == [role |-> "user", owner |-> r]
AssistantMessage(r) == [role |-> "assistant", owner |-> r]

\* pc of a request that awaits a vendor call whose rejection is rethrown
AwaitingVendor ==
    {"assistantsCreate", "threadsCreate", "messagesCreate", "runsCreate",
     "runsRetrieve", "messagesList", "assistantsDel"}

\* no request in the slot; status is the response of the previous one
NoRequest ==
    [pc |-> "idle", bookId |-> NULL, usedKeys |-> {}, status |-> 0,
     hasAssistant |-> FALSE, threadId |-> 0, runStatus |-> NULL,
     latestMessage |-> NoMessage]

\* this.threads.get(bookId), 0 for undefined
ThreadOf(bookId) ==
    IF \E p \in threads : p[1] = bookId
    THEN (CHOOSE p \in threads : p[1] = bookId)[2]
    ELSE 0

\* the book ids of this.threads
ThreadBooks == {p[1] : p \in threads}

\* the thread ids the registry or a request being served holds
HeldThreads(ths, rqs) ==
    {p[2] : p \in ths}
        \cup {rqs[q].threadId : q \in {x \in Requests : rqs[x].pc # "idle"}}

\* the id the vendor gives to a new thread
NewThreadId ==
    CHOOSE i \in ThreadIds :
        /\ i \notin HeldThreads(threads, reqs)
        /\ \A k \in 1..(i - 1) : k \in HeldThreads(threads, reqs)

\* the vendor's threads, without the messages of the threads whose id
\* neither the registry nor a request holds any longer
Forget(top, ths, rqs) ==
    [i \in ThreadIds |->
        IF i \in HeldThreads(ths, rqs) THEN top[i] ELSE NoMessage]

\* a request for the book as it is after ragService.initialize and the
\* synchronous start of the service method, awaiting its first vendor call
Started(r, bookId, pc) ==
    [pc |-> pc, bookId |-> bookId, usedKeys |-> {KeyOf(r)}, status |-> 0,
     hasAssistant |-> FALSE, threadId |-> 0, runStatus |-> NULL,
     latestMessage |-> NoMessage]

\* the record of a request that was answered with the status
Answered(status, runStatus, latestMessage) ==
    [NoRequest EXCEPT !.status = status, !.runStatus = runStatus,
                      !.latestMessage = latestMessage]

\* res.status(...).json(...) or res.json(...): the request is over
Respond(r, status) ==
    reqs' = [reqs EXCEPT ![r] = Answered(status, reqs[r].runStatus,
                                         reqs[r].latestMessage)]

\* a call on this.openai: the request goes on to await it; the client used
\* is the one the singleton holds when the call is made
CallVendor(r, call) ==
    reqs' = [reqs EXCEPT ![r].pc = call,
                         ![r].usedKeys = @ \cup {openai}]

\* POST /api/books/:bookId/init-rag up to its first await
ArriveInitRag(r) ==
    /\ reqs[r].pc = "idle"
    /\ \E bookId \in Books, withKey \in BOOLEAN :
          IF ~withKey
          THEN /\ reqs' = [reqs EXCEPT ![r] =
                              Answered(400, NULL, NoMessage)]
               /\ UNCHANGED openai
          ELSE \* ragService.initialize(openaiApiKey), then
               \* createBookAssistant up to assistants.create
               /\ openai' = KeyOf(r)
               /\ reqs' = [reqs EXCEPT ![r] =
                              Started(r, bookId, "assistantsCreate")]
    /\ UNCHANGED <<assistants, threads, uploadedFiles, threadTop>>
    /\ UNCHANGED <<scoreVars, svcVars, compVars, restVars, sugVars, abVars, saveVars>>

\* assistants.create resolves: assistants.set, then threads.create
AssistantsCreateResolves(r) ==
    /\ reqs[r].pc = "assistantsCreate"
    /\ assistants' = assistants \cup {reqs[r].bookId}
    /\ CallVendor(r, "threadsCreate")
    /\ UNCHANGED <<openai, threads, uploadedFiles, threadTop>>
    /\ UNCHANGED <<scoreVars, svcVars, compVars, restVars, sugVars, abVars, saveVars>>

\* threads.create resolves with a new, empty thread: threads.set, return,
\* res.json
ThreadsCreateResolves(r) ==
    /\ reqs[r].pc = "threadsCreate"
    /\ threads' = {p \in threads : p[1] # reqs[r].bookId}
                      \cup {<<reqs[r].bookId, NewThreadId>>}
    /\ Respond(r, 200)
    /\ threadTop' = Forget(threadTop, threads', reqs')
    /\ UNCHANGED <<openai, assistants, uploadedFiles>>
    /\ UNCHANGED <<scoreVars, svcVars, compVars, restVars, sugVars, abVars, saveVars>>

\* POST /api/books/:bookId/generate-rag up to its first await
ArriveGenerateRag(r) ==
    /\ reqs[r].pc = "idle"
    /\ \E bookId \in Books, withKey \in BOOLEAN :
          IF ~withKey
          THEN /\ reqs' = [reqs EXCEPT ![r] =
                              Answered(400, NULL, NoMessage)]
               /\ UNCHANGED openai
          ELSE \* ragService.initialize(openaiApiKey), then generateWithRAG
               \* up to messages.create
               /\ openai' = KeyOf(r)
               /\ IF bookId \in assistants /\ ThreadOf(bookId) # 0
                  THEN reqs' = [reqs EXCEPT ![r] =
                                   [Started(r, bookId, "messagesCreate")
                                       EXCEPT !.threadId =
                                                  ThreadOf(bookId)]]
                  ELSE reqs' = [reqs EXCEPT ![r] =
                                   Answered(500, NULL, NoMessage)]
    /\ UNCHANGED <<assistants, threads, uploadedFiles, threadTop>>
    /\ UNCHANGED <<scoreVars, svcVars, compVars, restVars, sugVars, abVars, saveVars>>

\* messages.create resolves, the prompt is on the thread: runs.create
MessagesCreateResolves(r) ==
    /\ reqs[r].pc = "messagesCreate"
    /\ threadTop' = [threadTop EXCEPT ![reqs[r].threadId] = UserMessage(r)]
    /\ CallVendor(r, "runsCreate")
    /\ UNCHANGED <<openai, assistants, threads, uploadedFiles>>
    /\ UNCHANGED <<scoreVars, svcVars, compVars, restVars, sugVars, abVars, saveVars>>

\* runs.create resolves: the first runs.retrieve
RunsCreateResolves(r) ==
    /\ reqs[r].pc = "runsCreate"
    /\ CallVendor(r, "runsRetrieve")
    /\ UNCHANGED <<openai, assistants, threads, uploadedFiles, threadTop>>
    /\ UNCHANGED <<scoreVars, svcVars, compVars, restVars, sugVars, abVars, saveVars>>

\* the test of the while loop and what follows the loop, which throws
\* when the status is not completed
AfterRetrievePollingOnCancelled(r, status) ==
    IF status \in {"in_progress", "queued", "cancelled"}
    THEN reqs' = [reqs EXCEPT ![r].pc = "sleep", ![r].runStatus = status]
    ELSE IF status = "completed"
    THEN reqs' = [reqs EXCEPT ![r].pc = "messagesList",
                              ![r].runStatus = status,
                              ![r].usedKeys = @ \cup {openai}]
    ELSE reqs' = [reqs EXCEPT ![r] = Answered(500, status, NoMessage)]

AfterRetrieve(r, status) ==
    IF status \in {"in_progress", "queued"}
    THEN reqs' = [reqs EXCEPT ![r].pc = "sleep", ![r].runStatus = status]
    ELSE IF status = "completed"
    THEN reqs' = [reqs EXCEPT ![r].pc = "messagesList",
                              ![r].runStatus = status,
                              ![r].usedKeys = @ \cup {openai}]
    ELSE reqs' = [reqs EXCEPT ![r] = Answered(500, status, NoMessage)]

\* runs.retrieve resolves with the status of the run; a run that is
\* reported completed has put its answer on the thread
RunsRetrieveResolves(r) ==
    /\ reqs[r].pc = "runsRetrieve"
    /\ \E status \in RunStatuses :
          /\ AfterRetrieve(r, status)
          /\ threadTop' = IF status = "completed"
                          THEN [threadTop EXCEPT ![reqs[r].threadId] =
                                                     AssistantMessage(r)]
                          ELSE Forget(threadTop, threads, reqs')
    /\ UNCHANGED <<openai, assistants, threads, uploadedFiles>>
    /\ UNCHANGED <<scoreVars, svcVars, compVars, restVars, sugVars, abVars, saveVars>>

\* the one-second sleep of the loop ends: runs.retrieve again
SleepEnds(r) ==
    /\ reqs[r].pc = "sleep"
    /\ CallVendor(r, "runsRetrieve")
    /\ UNCHANGED <<openai, assistants, threads, uploadedFiles, threadTop>>
    /\ UNCHANGED <<scoreVars, svcVars, compVars, restVars, sugVars, abVars, saveVars>>

\* messages.list resolves with the thread as it is now: return the text of
\* messages.data[0] if it is an assistant message, throw otherwise
MessagesListResolves(r) ==
    /\ reqs[r].pc = "messagesList"
    /\ reqs' = [reqs EXCEPT ![r] =
                   Answered(IF threadTop[reqs[r].threadId].role = "assistant"
                            THEN 200 ELSE 500,
                            reqs[r].runStatus, threadTop[reqs[r].threadId])]
    /\ threadTop' = Forget(threadTop, threads, reqs')
    /\ UNCHANGED <<openai, assistants, threads, uploadedFiles>>
    /\ UNCHANGED <<scoreVars, svcVars, compVars, restVars, sugVars, abVars, saveVars>>

\* this.assistants.delete, this.threads.delete, this.uploadedFiles.delete
\* at the end of deleteBookAssistant
CleanUp(bookId) ==
    /\ assistants' = assistants \ {bookId}
    /\ threads' = {p \in threads : p[1] # bookId}
    /\ uploadedFiles' = uploadedFiles \ {bookId}

\* DELETE /api/books/:bookId/rag up to its first await
ArriveDelete(r) ==
    /\ reqs[r].pc = "idle"
    /\ \E bookId \in Books, withKey \in BOOLEAN :
          IF ~withKey
          THEN /\ reqs' = [reqs EXCEPT ![r] =
                              Answered(400, NULL, NoMessage)]
               /\ UNCHANGED <<openai, assistants, threads, uploadedFiles>>
          ELSE \* ragService.initialize(openaiApiKey), then
               \* deleteBookAssistant up to files.del or assistants.del
               /\ openai' = KeyOf(r)
               /\ IF bookId \in uploadedFiles
                  THEN /\ reqs' = [reqs EXCEPT ![r] =
                                      [Started(r, bookId, "filesDel")
                                          EXCEPT !.hasAssistant =
                                                     bookId \in assistants]]
                       /\ UNCHANGED <<assistants, threads, uploadedFiles>>
                  ELSE IF bookId \in assistants
                  THEN /\ reqs' = [reqs EXCEPT ![r] =
                                      [Started(r, bookId, "assistantsDel")
                                          EXCEPT !.hasAssistant = TRUE]]
                       /\ UNCHANGED <<assistants, threads, uploadedFiles>>
                  ELSE /\ reqs' = [reqs EXCEPT ![r] =
                                      Answered(200, NULL, NoMessage)]
                       /\ CleanUp(bookId)
    /\ threadTop' = Forget(threadTop, threads', reqs')
    /\ UNCHANGED <<scoreVars, svcVars, compVars, restVars, sugVars, abVars, saveVars>>

\* files.del of the book's file resolves or rejects (the rejection is only
\* logged): assistants.del if the book had an assistant, else the clean-up
FilesDelSettles(r) ==
    /\ reqs[r].pc = "filesDel"
    /\ IF reqs[r].hasAssistant
       THEN /\ CallVendor(r, "assistantsDel")
            /\ UNCHANGED <<assistants, threads, uploadedFiles>>
       ELSE /\ Respond(r, 200)
            /\ CleanUp(reqs[r].bookId)
    /\ threadTop' = Forget(threadTop, threads', reqs')
    /\ UNCHANGED openai
    /\ UNCHANGED <<scoreVars, svcVars, compVars, restVars, sugVars, abVars, saveVars>>

\* assistants.del resolves: the clean-up, res.json
AssistantsDelResolves(r) ==
    /\ reqs[r].pc = "assistantsDel"
    /\ Respond(r, 200)
    /\ CleanUp(reqs[r].bookId)
    /\ threadTop' = Forget(threadTop, threads', reqs')
    /\ UNCHANGED openai
    /\ UNCHANGED <<scoreVars, svcVars, compVars, restVars, sugVars, abVars, saveVars>>

\* the awaited vendor call rejects: the service rethrows, the route answers
\* 500
VendorCallRejects(r) ==
    /\ reqs[r].pc \in AwaitingVendor
    /\ Respond(r, 500)
    /\ threadTop' = Forget(threadTop, threads, reqs')
    /\ UNCHANGED <<openai, assistants, threads, uploadedFiles>>
    /\ UNCHANGED <<scoreVars, svcVars, compVars, restVars, sugVars, abVars, saveVars>>

SrvIdle ==
    /\ openai = NULL
    /\ assistants = {}
    /\ threads = {}
    /\ uploadedFiles = {}
    /\ threadTop = [i \in ThreadIds |-> NoMessage]
    /\ reqs = [r \in Requests |-> NoRequest]

-----------------------------------------------------------------------------
(* The useAutoSave hook (unnamed/part_004)                                  *)

MaxSaving == 2   \* saveFunction calls that may be pending together

Data == {"d0", "d1", "d2"}

\* ids of setTimeout timers; a new timer gets an id that is not in use
TimerIds == 1..3

ClearedNothing(ts) == ts

\* clearTimeout(timeoutRef.current) if timeoutRef.current is set
Cleared(ts) == {t \in ts : t.id # timeoutRef}

NewTimerId(ts) ==
    CHOOSE i \in TimerIds : i # timeoutRef /\ \A t \in ts : t.id # i

FreeSlot == CHOOSE n \in 1..MaxSaving : \A sv \in saving : sv.n # n

\* performSave(dataToSave) up to its await; ts is the set of timers left
PerformSave(dataToSave, ts) ==
    /\ timers' = ts
    /\ lastSavedData' = lastSavedData
    /\ IF ~enabled \/ ~online
       THEN UNCHANGED <<isAutoSaving, saveError, saving, renderPending,
                        lastSaveArg, savedLatest>>
       ELSE /\ isAutoSaving' = TRUE
            /\ saveError' = NULL
            /\ saving' = saving \cup {[n |-> FreeSlot, data |-> dataToSave]}
            /\ lastSaveArg' = dataToSave
            /\ savedLatest' = (savedLatest \/ dataToSave = data)
            /\ renderPending' =
                   (renderPending \/ ~isAutoSaving \/ saveError # NULL)

\* the caller renders with a new value of data: the auto-save effect is
\* cleaned up and runs again
DataChange ==
    \E d \in Data \ {data} :
        /\ data' = d
        /\ savedLatest' = FALSE
        /\ IF ~enabled
           THEN UNCHANGED <<hasUnsavedChanges, lastDataRef, timeoutRef,
                            timers, changed>>
                /\ renderPending' = FALSE
           ELSE IF d # lastDataRef
           THEN /\ hasUnsavedChanges' = TRUE
                /\ lastDataRef' = d
                /\ timeoutRef' = NewTimerId(Cleared(timers))
                /\ timers' = Cleared(timers)
                       \cup {[id |-> NewTimerId(Cleared(timers)),
                              data |-> d]}
                /\ changed' = TRUE
                /\ renderPending' = ~hasUnsavedChanges
           ELSE /\ timers' = Cleared(timers)
                /\ renderPending' = FALSE
                /\ UNCHANGED <<hasUnsavedChanges, lastDataRef, timeoutRef,
                               changed>>
        /\ UNCHANGED <<enabled, stableCallbacks, online, isAutoSaving,
                       saveError, saving, lastSavedData, lastSaveArg>>
        /\ UNCHANGED <<scoreVars, svcVars, compVars, restVars, sugVars, abVars,
                       srvVars>>

\* a render with the same data: with callbacks that are new functions on
\* every render performSave is a new function, so the effect is cleaned up
\* (its timer cleared) and runs again without seeing a change
RenderSameData ==
    /\ renderPending' = FALSE
    /\ timers' = IF enabled /\ ~stableCallbacks THEN Cleared(timers)
                 ELSE timers
    /\ UNCHANGED <<data, enabled, stableCallbacks, online, hasUnsavedChanges,
                   isAutoSaving, saveError, lastDataRef, timeoutRef, saving,
                   changed, lastSavedData, lastSaveArg, savedLatest>>
    /\ UNCHANGED <<scoreVars, svcVars, compVars, restVars, sugVars, abVars, srvVars>>

\* the re-render scheduled by a state update of the hook
Rerender == renderPending /\ RenderSameData

\* the caller re-renders for a reason of its own
ParentRerender == ~renderPending /\ RenderSameData

\* a timer set by the effect fires: performSave(data) of its closure
TimerFires ==
    /\ Cardinality(saving) < MaxSaving
    /\ \E t \in timers : PerformSave(t.data, timers \ {t})
    /\ UNCHANGED <<data, enabled, stableCallbacks, online, hasUnsavedChanges,
                   lastDataRef, timeoutRef, changed>>
    /\ UNCHANGED <<scoreVars, svcVars, compVars, restVars, sugVars, abVars, srvVars>>

\* manualSave of the latest render
ManualSave ==
    /\ Cardinality(saving) < MaxSaving
    /\ PerformSave(data, Cleared(timers))
    /\ UNCHANGED <<data, enabled, stableCallbacks, online, hasUnsavedChanges,
                   lastDataRef, timeoutRef, changed>>
    /\ UNCHANGED <<scoreVars, svcVars, compVars, restVars, sugVars, abVars, srvVars>>

\* saveFunction resolves: setLastSaved, setHasUnsavedChanges(false), onSave,
\* finally setIsAutoSaving(false)
SaveSucceeds ==
    /\ \E sv \in saving :
          /\ saving' = saving \ {sv}
          /\ lastSavedData' = sv.data
    /\ hasUnsavedChanges' = FALSE
    /\ isAutoSaving' = FALSE
    /\ renderPending' = TRUE
    /\ UNCHANGED <<data, enabled, stableCallbacks, online, saveError,
                   lastDataRef, timeoutRef, timers, changed, lastSaveArg,
                   savedLatest>>
    /\ UNCHANGED <<scoreVars, svcVars, compVars, restVars, sugVars, abVars, srvVars>>

\* saveFunction rejects: setSaveError, onError, toast, finally
\* setIsAutoSaving(false)
SaveFails ==
    /\ \E sv \in saving : saving' = saving \ {sv}
    /\ saveError' = "error"
    /\ isAutoSaving' = FALSE
    /\ renderPending' = TRUE
    /\ UNCHANGED <<data, enabled, stableCallbacks, online, hasUnsavedChanges,
                   lastDataRef, timeoutRef, timers, changed, lastSavedData, lastSaveArg,
                   savedLatest>>
    /\ UNCHANGED <<scoreVars, svcVars, compVars, restVars, sugVars, abVars, srvVars>>

\* window 'offline' and 'online' events
GoOffline ==
    /\ online
    /\ online' = FALSE
    /\ UNCHANGED <<data, enabled, stableCallbacks, hasUnsavedChanges,
                   isAutoSaving, saveError, lastDataRef, timeoutRef, timers,
                   saving, renderPending, changed, lastSavedData, lastSaveArg, savedLatest>>
    /\ UNCHANGED <<scoreVars, svcVars, compVars, restVars, sugVars, abVars, srvVars>>

GoOnline ==
    /\ ~online
    /\ online' = TRUE
    /\ UNCHANGED <<data, enabled, stableCallbacks, hasUnsavedChanges,
                   isAutoSaving, saveError, lastDataRef, timeoutRef, timers,
                   saving, renderPending, changed, lastSavedData, lastSaveArg, savedLatest>>
    /\ UNCHANGED <<scoreVars, svcVars, compVars, restVars, sugVars, abVars, srvVars>>

\* the hook's state and refs after the first render with data d
Mounted(d) ==
    /\ data = d
    /\ hasUnsavedChanges = FALSE /\ isAutoSaving = FALSE
    /\ saveError = NULL /\ lastDataRef = d /\ timeoutRef = 0
    /\ timers = {} /\ saving = {} /\ renderPending = FALSE
    /\ changed = FALSE /\ lastSaveArg = NULL /\ savedLatest = TRUE
    /\ lastSavedData = NULL

SaveIdle ==
    /\ Mounted(NULL)
    /\ enabled = FALSE /\ stableCallbacks = FALSE /\ online = FALSE

-----------------------------------------------------------------------------
(* AIService.generateContent of the client (src/lib/exportService.js)       *)

\* const providers = ['openai', 'anthropic', 'openrouter']
providers == <<"openai", "anthropic", "openrouter">>

\* how a request to the server ends: an OK response, a response that is not
\* OK, or an error thrown by fetch or by response.json()
Outcomes == {"ok", "notOk", "throws"}

\* bookId: a book id is passed; ragEnabled: this.ragEnabled.get(bookId);
\* apiKeys, selectedModels: the providers with a key / a selected model;
\* rag, fetch: how the RAG request and the request for a provider end
GenerateArgs ==
    [bookId : BOOLEAN, ragEnabled : BOOLEAN,
     apiKeys : SUBSET SelectableProviders,
     selectedModels : SUBSET SelectableProviders,
     rag : Outcomes, fetch : [SelectableProviders -> Outcomes]]

Returned(v) == [threw |-> FALSE, value |-> v]
Thrown == [threw |-> TRUE]

\* the for loop over the providers from index i on, and the return of the
\* demo content after it
RECURSIVE ProviderLoop(_, _)
ProviderLoop(a, i) ==
    IF i > Len(providers) THEN Returned("demo")
    ELSE IF providers[i] \in a.apiKeys
            /\ providers[i] \in a.selectedModels
    THEN CASE a.fetch[providers[i]] = "throws" -> Thrown
           [] a.fetch[providers[i]] = "ok" -> Returned(providers[i])
           [] OTHER -> ProviderLoop(a, i + 1)
    ELSE ProviderLoop(a, i + 1)

\* the body of the outer try block; ragServiceClient.generateWithRAG throws
\* unless the response is OK, which the inner catch only logs
TryBlock(a) ==
    IF a.bookId /\ a.ragEnabled /\ "openai" \in a.apiKeys /\ a.rag = "ok"
    THEN Returned("rag")
    ELSE ProviderLoop(a, 1)

Resolved(v) == [settled |-> "resolved", value |-> v]
Rejected == [settled |-> "rejected"]

generateContentWithoutCatch(a) ==
    IF TryBlock(a).threw THEN Rejected ELSE Resolved(TryBlock(a).value)

\* the outer catch returns the demo content
generateContent(a) ==
    IF TryBlock(a).threw THEN Resolved("demo")
    ELSE Resolved(TryBlock(a).value)

GenerateContent ==
    /\ genCall = NoCall
    /\ \E a \in GenerateArgs :
          genCall' = [args |-> a, result |-> generateContent(a)]
    /\ UNCHANGED <<scoreVars, svcVars, compVars, sugVars, abVars, srvVars,
                   saveVars, edVars, progVars>>

GenIdle == genCall = NoCall

-----------------------------------------------------------------------------
(* BookEditor: generateTopicContent and generateAllContent                  *)

\* the topics of the book in the order of the chapters; both buttons that
\* call generateAllContent are shown only when the book has topics
EditorTopics == {1, 2}

\* a topic's content: empty (or shorter than 100 characters), content the
\* topic already had, content returned by aiService.generateTopicContent
TopicContents == {"empty", "existing", "generated"}

TopicStatuses == {"pending", "draft", "generating", "completed"}

\* the topics as loadBook finds them
LoadedTopics ==
    {[status |-> "pending", content |-> "empty"],
     [status |-> "draft", content |-> "empty"],
     [status |-> "completed", content |-> "existing"]}

\* an async function that is not running; closure is the chapters value of
\* the render whose handler was called
NoJob == [pc |-> "idle", topic |-> 0, closure |-> <<>>, totalGenerated |-> 0]

Job(pc, topic, closure, totalGenerated) ==
    [pc |-> pc, topic |-> topic, closure |-> closure,
     totalGenerated |-> totalGenerated]

\* the value passed to setChapters by updateTopicStatus
updateTopicStatus(chs, topicId, status) ==
    [chs EXCEPT ![topicId].status = status]

\* the value passed to setChapters by updateTopicContent
updateTopicContent(chs, topicId, generated) ==
    [chs EXCEPT ![topicId] = [status |-> "completed", content |-> generated]]

\* !topic.content || topic.content.trim().length < 100
NeedsContent(topic) == topic.content = "empty"

\* the next topic after position i the loops of generateAllContent generate
\* content for, 0 when there is none
NextTopic(chs, i) ==
    IF \E j \in EditorTopics : j > i /\ NeedsContent(chs[j])
    THEN CHOOSE j \in EditorTopics :
            /\ j > i /\ NeedsContent(chs[j])
            /\ \A k \in EditorTopics :
                  (k > i /\ NeedsContent(chs[k])) => j <= k
    ELSE 0

\* totalTopics
totalTopics == Cardinality(EditorTopics)

\* a click on a Generate button of a topic
ClickGenerateTopic(t) ==
    /\ ~generating /\ ~generatingAll
    /\ single.pc = "idle"
    /\ generating' = TRUE
    /\ generatingTopicId' = t
    /\ single' = Job("statusUpdate", t, editorChapters, 0)
    /\ UNCHANGED <<editorChapters, generatingAll, all, succeeded>>
    /\ UNCHANGED <<scoreVars, svcVars, compVars, sugVars, abVars, srvVars,
                   saveVars, genVars, progVars>>

\* await updateTopicStatus(topic.id, 'generating') of generateTopicContent
SingleStatusUpdated ==
    /\ single.pc = "statusUpdate"
    /\ editorChapters' =
          updateTopicStatus(single.closure, single.topic, "generating")
    /\ single' = [single EXCEPT !.pc = "generate"]
    /\ UNCHANGED <<generating, generatingTopicId, generatingAll, all,
                   succeeded>>
    /\ UNCHANGED <<scoreVars, svcVars, compVars, sugVars, abVars, srvVars,
                   saveVars, genVars, progVars>>

\* aiService.generateTopicContent resolves or rejects
SingleGenerationSettles ==
    /\ single.pc = "generate"
    /\ \E pc \in {"contentUpdate", "draftUpdate"} :
          single' = [single EXCEPT !.pc = pc]
    /\ UNCHANGED <<editorChapters, generating, generatingTopicId,
                   generatingAll, all, succeeded>>
    /\ UNCHANGED <<scoreVars, svcVars, compVars, sugVars, abVars, srvVars,
                   saveVars, genVars, progVars>>

\* await updateTopicContent(topic.id, content), or in the catch block
\* await updateTopicStatus(topic.id, 'draft'); then the finally block
SingleUpdated ==
    /\ single.pc \in {"contentUpdate", "draftUpdate"}
    /\ editorChapters' =
          IF single.pc = "contentUpdate"
          THEN updateTopicContent(single.closure, single.topic, "generated")
          ELSE updateTopicStatus(single.closure, single.topic, "draft")
    /\ generating' = FALSE
    /\ generatingTopicId' = 0
    /\ single' = NoJob
    /\ UNCHANGED <<generatingAll, all, succeeded>>
    /\ UNCHANGED <<scoreVars, svcVars, compVars, sugVars, abVars, srvVars,
                   saveVars, genVars, progVars>>

\* the loops of generateAllContent go on after position i: the next topic
\* without content is started, or the function ends with its finally block
Continue(i, closure, generated) ==
    IF NextTopic(closure, i) = 0
    THEN /\ generatingAll' = FALSE
         /\ generatingTopicId' = 0
         /\ all' = NoJob
    ELSE /\ generatingAll' = TRUE
         /\ generatingTopicId' = NextTopic(closure, i)
         /\ all' = Job("statusUpdate", NextTopic(closure, i), closure,
                       generated)

\* a click on a Generate All button
ClickGenerateAll ==
    /\ ~generatingAll
    /\ all.pc = "idle"
    /\ succeeded' = {}
    /\ Continue(0, editorChapters, 0)
    /\ UNCHANGED <<editorChapters, generating, single>>
    /\ UNCHANGED <<scoreVars, svcVars, compVars, sugVars, abVars, srvVars,
                   saveVars, genVars, progVars>>

\* await updateTopicStatus(topic.id, 'generating') of generateAllContent
AllStatusUpdated ==
    /\ all.pc = "statusUpdate"
    /\ editorChapters' =
          updateTopicStatus(all.closure, all.topic, "generating")
    /\ all' = [all EXCEPT !.pc = "generate"]
    /\ UNCHANGED <<generating, generatingTopicId, generatingAll, single,
                   succeeded>>
    /\ UNCHANGED <<scoreVars, svcVars, compVars, sugVars, abVars, srvVars,
                   saveVars, genVars, progVars>>

\* aiService.generateTopicContent resolves or rejects
AllGenerationSettles ==
    /\ all.pc = "generate"
    /\ \E pc \in {"contentUpdate", "draftUpdate"} :
          all' = [all EXCEPT !.pc = pc]
    /\ UNCHANGED <<editorChapters, generating, generatingTopicId,
                   generatingAll, single, succeeded>>
    /\ UNCHANGED <<scoreVars, svcVars, compVars, sugVars, abVars, srvVars,
                   saveVars, genVars, progVars>>

\* await updateTopicContent(topic.id, content); totalGenerated++; the delay
\* is awaited unless every topic has been generated
AllContentUpdated ==
    /\ all.pc = "contentUpdate"
    /\ editorChapters' =
          updateTopicContent(all.closure, all.topic, "generated")
    /\ succeeded' = succeeded \cup {all.topic}
    /\ IF all.totalGenerated + 1 < totalTopics
       THEN /\ all' = [all EXCEPT !.pc = "delay",
                                  !.totalGenerated = all.totalGenerated + 1]
            /\ UNCHANGED <<generatingAll, generatingTopicId>>
       ELSE Continue(all.topic, all.closure, all.totalGenerated + 1)
    /\ UNCHANGED <<generating, single>>
    /\ UNCHANGED <<scoreVars, svcVars, compVars, sugVars, abVars, srvVars,
                   saveVars, genVars, progVars>>

\* the timeout of the delay fires
AllDelayEnds ==
    /\ all.pc = "delay"
    /\ Continue(all.topic, all.closure, all.totalGenerated)
    /\ UNCHANGED <<editorChapters, generating, single, succeeded>>
    /\ UNCHANGED <<scoreVars, svcVars, compVars, sugVars, abVars, srvVars,
                   saveVars, genVars, progVars>>

\* the inner catch block: await updateTopicStatus(topic.id, 'draft')
AllDraftUpdated ==
    /\ all.pc = "draftUpdate"
    /\ editorChapters' = updateTopicStatus(all.closure, all.topic, "draft")
    /\ Continue(all.topic, all.closure, all.totalGenerated)
    /\ UNCHANGED <<generating, single, succeeded>>
    /\ UNCHANGED <<scoreVars, svcVars, compVars, sugVars, abVars, srvVars,
                   saveVars, genVars, progVars>>

EdIdle ==
    /\ editorChapters = [t \in EditorTopics |->
                            [status |-> "pending", content |-> "empty"]]
    /\ generating = FALSE
    /\ generatingTopicId = 0
    /\ generatingAll = FALSE
    /\ single = NoJob
    /\ all = NoJob
    /\ succeeded = {}

-----------------------------------------------------------------------------
(* ProgressTracker (src/components/ContentPreview.jsx)                      *)

\* how often the mock progress effect is run with isVisible true
MaxRuns == 2

\* the durations of mockSteps, in seconds; the ids are the positions
mockSteps == <<2, 3, 4, 5, 8, 6, 2>>

RECURSIVE SumTo(_, _)
SumTo(durations, n) ==
    IF n = 0 THEN 0 ELSE SumTo(durations, n - 1) + durations[n]

\* mockSteps.reduce((sum, step) => sum + step.duration, 0)
totalDuration == SumTo(mockSteps, Len(mockSteps))

\* (elapsed / totalDuration) * 100, in units of 1/totalDuration percent
ProgressOf(elapsed) == elapsed * 100

\* progress is 100
Hundred == 100 * totalDuration

\* a run of the effect that has not happened
NoChain == [pc |-> "none", currentStepIndex |-> 0, elapsed |-> 0]

\* the first half of updateProgress: the step is appended to steps and the
\* timeout of its duration is set
StartStep(c, index, elapsed) ==
    /\ steps' = Append(steps, [id |-> index + 1, completed |-> FALSE])
    /\ chains' = [chains EXCEPT ![c] = [pc |-> "working",
                                        currentStepIndex |-> index,
                                        elapsed |-> elapsed]]

\* steps.map(step => step.id === id ? { ...step, completed: true } : step)
CompleteStep(prev, id) ==
    [i \in 1..Len(prev) |->
        IF prev[i].id = id THEN [prev[i] EXCEPT !.completed = TRUE]
        ELSE prev[i]]

\* the parent shows the tracker: the effect on [isVisible] calls
\* updateProgress with a fresh currentStepIndex and elapsed
Show ==
    /\ ~isVisible
    /\ \E c \in 1..MaxRuns :
          /\ chains[c] = NoChain
          /\ \A b \in 1..(c - 1) : chains[b] # NoChain
          /\ StartStep(c, 0, 0)
    /\ isVisible' = TRUE
    /\ UNCHANGED <<progress, trackerStatus>>
    /\ UNCHANGED <<scoreVars, svcVars, compVars, sugVars, abVars, srvVars,
                   saveVars, genVars, edVars>>

\* the parent hides the tracker: the effect returns at once, the timeouts
\* that are set stay set
Hide ==
    /\ isVisible
    /\ isVisible' = FALSE
    /\ UNCHANGED <<progress, steps, trackerStatus, chains>>
    /\ UNCHANGED <<scoreVars, svcVars, compVars, sugVars, abVars, srvVars,
                   saveVars, genVars, edVars>>

\* the timeout of the current step's duration fires
DurationElapses(c) ==
    /\ chains[c].pc = "working"
    /\ LET index == chains[c].currentStepIndex
           elapsed == chains[c].elapsed + mockSteps[index + 1]
       IN  /\ progress' = ProgressOf(elapsed)
           /\ steps' = CompleteStep(steps, index + 1)
           /\ IF index + 1 < Len(mockSteps)
              THEN /\ chains' = [chains EXCEPT ![c] =
                                    [pc |-> "pause",
                                     currentStepIndex |-> index + 1,
                                     elapsed |-> elapsed]]
                   /\ UNCHANGED trackerStatus
              ELSE /\ chains' = [chains EXCEPT ![c] =
                                    [pc |-> "done",
                                     currentStepIndex |-> index + 1,
                                     elapsed |-> elapsed]]
                   /\ trackerStatus' = "completed"
    /\ UNCHANGED isVisible
    /\ UNCHANGED <<scoreVars, svcVars, compVars, sugVars, abVars, srvVars,
                   saveVars, genVars, edVars>>

\* setTimeout(updateProgress, 500) fires
PauseElapses(c) ==
    /\ chains[c].pc = "pause"
    /\ StartStep(c, chains[c].currentStepIndex, chains[c].elapsed)
    /\ UNCHANGED <<isVisible, progress, trackerStatus>>
    /\ UNCHANGED <<scoreVars, svcVars, compVars, sugVars, abVars, srvVars,
                   saveVars, genVars, edVars>>

ProgIdle ==
    /\ isVisible = FALSE
    /\ progress = 0
    /\ steps = <<>>
    /\ trackerStatus = "running"
    /\ chains = [c \in 1..MaxRuns |-> NoChain]

RestIdle == GenIdle /\ EdIdle /\ ProgIdle

-----------------------------------------------------------------------------
(* Specifications *)

ScoreIdle == content = <<>> /\ metrics = NotAnalyzed
SvcIdle == svcCall = NoCall
SugIdle == sugCall = NoCall
CompIdle ==
    /\ bookData = FALSE
    /\ chapters = <<>>
    /\ selectedProvider = NULL
    /\ selectedModel = NULL
    /\ ragEnabled = FALSE
    /\ estimate = InitialEstimate
    /\ isExpanded = FALSE
    /\ mounted = FALSE
    /\ computed = FALSE

\* content analysis
InitScore ==
    /\ content \in Contents
    /\ metrics = NotAnalyzed
    /\ SvcIdle
    /\ CompIdle
    /\ RestIdle
    /\ SugIdle /\ ABIdle /\ SrvIdle /\ SaveIdle

NextScore == AnalyzeContent

SpecScore == InitScore /\ [][NextScore]_vars

\* the service's cost function
InitSvc ==
    /\ ScoreIdle /\ SvcIdle /\ CompIdle
    /\ RestIdle
    /\ SugIdle /\ ABIdle /\ SrvIdle /\ SaveIdle

NextSvc == CalculateCost

SpecSvc == InitSvc /\ [][NextSvc]_vars

\* the CostEstimator component
InitCost ==
    /\ ScoreIdle
    /\ SvcIdle
    /\ bookData \in BOOLEAN
    /\ chapters \in ChapterLists
    /\ selectedProvider \in SelectableProviders \cup {NULL}
    /\ selectedModel \in Models \cup {NULL}
    /\ ragEnabled \in BOOLEAN
    /\ estimate = InitialEstimate
    /\ isExpanded = FALSE
    /\ mounted = FALSE
    /\ computed = FALSE
    /\ RestIdle
    /\ SugIdle /\ ABIdle /\ SrvIdle /\ SaveIdle

NextCost ==
    \/ Mount
    \/ SetBookData
    \/ SetChapters
    \/ SetSelectedProvider
    \/ SetSelectedModel
    \/ SetRagEnabled
    \/ ToggleExpanded

SpecCost == InitCost /\ [][NextCost]_vars

\* the optimization suggestions
InitSuggest ==
    /\ ScoreIdle /\ SvcIdle /\ CompIdle
    /\ RestIdle
    /\ SugIdle /\ ABIdle /\ SrvIdle /\ SaveIdle

NextSuggest == GenerateOptimizationSuggestions

SpecSuggest == InitSuggest /\ [][NextSuggest]_vars

\* the A/B testing panel
InitAB ==
    /\ ScoreIdle /\ SvcIdle /\ CompIdle
    /\ RestIdle
    /\ SugIdle /\ ABIdle /\ SrvIdle /\ SaveIdle

NextAB ==
    \/ ClickGenerate
    \/ GenerationResolves
    \/ GenerationRejects
    \/ SelectVariation
    \/ UseThisVariation
    \/ SetIsGenerating

SpecAB == InitAB /\ [][NextAB]_vars

\* the server
InitServer ==
    /\ ScoreIdle /\ SvcIdle /\ CompIdle
    /\ RestIdle
    /\ SugIdle /\ ABIdle /\ SaveIdle
    /\ openai = NULL
    /\ assistants = {}
    /\ threads = {}
    /\ uploadedFiles \in SUBSET Books   \* books with files uploaded earlier
    /\ threadTop = [i \in ThreadIds |-> NoMessage]
    /\ reqs = [r \in Requests |-> NoRequest]

\* what a request being served does next
Proceeds(r) ==
    \/ AssistantsCreateResolves(r)
    \/ ThreadsCreateResolves(r)
    \/ MessagesCreateResolves(r)
    \/ RunsCreateResolves(r)
    \/ RunsRetrieveResolves(r)
    \/ SleepEnds(r)
    \/ MessagesListResolves(r)
    \/ FilesDelSettles(r)
    \/ AssistantsDelResolves(r)
    \/ VendorCallRejects(r)

NextServer ==
    \E r \in Requests :
        \/ ArriveInitRag(r)
        \/ ArriveGenerateRag(r)
        \/ ArriveDelete(r)
        \/ Proceeds(r)

SpecServer == InitServer /\ [][NextServer]_vars

\* every vendor call is settled and every sleep ends
SpecServerFair ==
    SpecServer /\ \A r \in Requests : WF_vars(Proceeds(r))

\* the useAutoSave hook
InitAutoSave ==
    /\ ScoreIdle /\ SvcIdle /\ CompIdle
    /\ RestIdle
    /\ SugIdle /\ ABIdle /\ SrvIdle
    /\ Mounted("d0")
    /\ enabled \in BOOLEAN
    /\ stableCallbacks \in BOOLEAN
    /\ online \in BOOLEAN

NextAutoSave ==
    \/ DataChange
    \/ Rerender
    \/ ParentRerender
    \/ TimerFires
    \/ ManualSave
    \/ SaveSucceeds
    \/ SaveFails
    \/ GoOffline
    \/ GoOnline

SpecAutoSave == InitAutoSave /\ [][NextAutoSave]_vars

\* the client's generateContent
InitGenerate ==
    /\ ScoreIdle /\ SvcIdle /\ CompIdle
    /\ SugIdle /\ ABIdle /\ SrvIdle /\ SaveIdle
    /\ GenIdle /\ EdIdle /\ ProgIdle

NextGenerate == GenerateContent

SpecGenerate == InitGenerate /\ [][NextGenerate]_vars

\* the BookEditor page after loadBook
InitEditor ==
    /\ ScoreIdle /\ SvcIdle /\ CompIdle
    /\ SugIdle /\ ABIdle /\ SrvIdle /\ SaveIdle
    /\ GenIdle
    /\ editorChapters \in [EditorTopics -> LoadedTopics]
    /\ generating = FALSE
    /\ generatingTopicId = 0
    /\ generatingAll = FALSE
    /\ single = NoJob
    /\ all = NoJob
    /\ succeeded = {}
    /\ ProgIdle

NextEditor ==
    \/ \E t \in EditorTopics : ClickGenerateTopic(t)
    \/ SingleStatusUpdated
    \/ SingleGenerationSettles
    \/ SingleUpdated
    \/ ClickGenerateAll
    \/ AllStatusUpdated
    \/ AllGenerationSettles
    \/ AllContentUpdated
    \/ AllDelayEnds
    \/ AllDraftUpdated

SpecEditor == InitEditor /\ [][NextEditor]_vars

\* the ProgressTracker, mounted hidden
InitProgress ==
    /\ ScoreIdle /\ SvcIdle /\ CompIdle
    /\ SugIdle /\ ABIdle /\ SrvIdle /\ SaveIdle
    /\ GenIdle /\ EdIdle
    /\ ProgIdle

NextProgress ==
    \/ Show
    \/ Hide
    \/ \E c \in 1..MaxRuns : DurationElapses(c)
    \/ \E c \in 1..MaxRuns : PauseElapses(c)

SpecProgress == InitProgress /\ [][NextProgress]_vars

-----------------------------------------------------------------------------
(* Properties of the content analysis, checked under SpecScore *)

Analyzed == metrics # NotAnalyzed

\* the non-empty pieces of c between runs of characters of Sep
NonEmptyPieces(c, Sep) ==
    Cardinality({i \in 1..Len(c) :
                    c[i] \notin Sep /\ (i = 1 \/ c[i - 1] \in Sep)})

\* C1: for every content, overallScore is the mean of readabilityScore and
\* structureScore rounded to the nearest integer, hence an integer.
C1_OverallIsRoundedMean ==
    Analyzed =>
        LET mean == HalfOf(metrics.readabilityScore + metrics.structureScore)
        IN  /\ IsInteger(metrics.overallScore)
            /\ metrics.overallScore = Num(MathRound(mean))

\* C3: for every content, the empty, white-space-only and punctuation-only
\* ones included, the three scores lie between 0 and 100.
C3_ScoresInRange ==
    Analyzed =>
        /\ 0 <= metrics.readabilityScore /\ metrics.readabilityScore <= 100
        /\ 0 <= metrics.structureScore /\ metrics.structureScore <= 100
        /\ 0 <= metrics.overallScore.num
        /\ metrics.overallScore.num <= 100 * metrics.overallScore.den

\* a punctuation-only content has been analysed
C3_Witness ==
    /\ Analyzed
    /\ content # <<>>
    /\ \A i \in 1..Len(content) : content[i] \in Terminators

\* C8: wordCount is the number of non-empty white-space-delimited tokens
\* (0 for the empty string, leading and trailing white space not counted).
C8_WordCountIsTokenCount ==
    Analyzed => metrics.wordCount = NonEmptyPieces(content, Whitespace)

\* C9: the sentence count of calculateReadabilityScore is the number of
\* non-empty segments between runs of terminators, and at least 1.
C9_SentenceCountIsSegmentCount ==
    Analyzed =>
        LET segments == NonEmptyPieces(content, Terminators)
        IN  sentenceCount(content) = IF segments < 1 THEN 1 ELSE segments

\* C10: the readability score is 90 exactly when the average words per
\* sentence is within [15,20], 75 exactly when it is within [10,25] but not
\* within [15,20], and 60 exactly when it is outside [10,25]; the limits
\* 10, 15, 20 and 25 belong to the better band.
C10_ReadabilityBands ==
    Analyzed =>
        LET w == wordCount(content)
            s == sentenceCount(content)
            r == metrics.readabilityScore
        IN  /\ r \in {60, 75, 90}
            /\ r = 90 <=> (15 * s <= w /\ w <= 20 * s)
            /\ r = 75 <=> \/ (10 * s <= w /\ w < 15 * s)
                          \/ (20 * s < w /\ w <= 25 * s)
            /\ r = 60 <=> (w < 10 * s \/ w > 25 * s)

\* a content of two sentences averaging exactly 20 words has been scored
C10_Witness ==
    /\ Analyzed
    /\ sentenceCount(content) = 2
    /\ wordCount(content) = 40
    /\ metrics.readabilityScore = 90

-----------------------------------------------------------------------------
(* Properties of the cost estimates, checked under SpecCost *)

\* the image cost of the current props
ImageCostOfProps ==
    IF selectedProvider = "openai"
    THEN Len(chapters) * pricing["openai"]["dall-e-3"].image
    ELSE IF selectedProvider = "stabilityai"
    THEN Len(chapters) * pricing["stabilityai"]["stable-diffusion"].image
    ELSE 0

\* the image term of a calculateCost call
ImageCostOfArgs(a) ==
    IF a.provider = "openai"
    THEN a.images * pricing["openai"]["dall-e-3"].image
    ELSE IF a.provider = "stabilityai"
    THEN a.images * pricing["stabilityai"]["stable-diffusion"].image
    ELSE 0

\* C2: with ragEnabled the total cost is exactly 1.2 times the total cost
\* without it on the same inputs (total - plain = plain / 5), in the
\* service's calculateCost and in the component's calculateEstimate.
C2_RagTotalIsTimes12 ==
    /\ (svcCall # NoCall /\ svcCall.args.ragEnabled) =>
          LET plain == calculateCost([svcCall.args EXCEPT !.ragEnabled = FALSE])
          IN  (svcCall.result - plain) * 5 = plain
    /\ (mounted /\ computed /\ ragEnabled) =>
          LET plain == calculateEstimate(bookData, chapters, selectedProvider,
                                         selectedModel, FALSE)
          IN  (estimate.totalCost - plain.totalCost) * 5 = plain.totalCost

\* C4: in every estimate the component holds, totalCost = textCost +
\* imageCost (textCost carries the RAG multiplier, ragCost is not added).
C4_TotalIsTextPlusImage ==
    estimate.totalCost = estimate.textCost + estimate.imageCost

\* an estimate with a RAG overhead and an image cost has been computed
C4_Witness ==
    /\ mounted
    /\ computed
    /\ ragEnabled
    /\ estimate.ragCost > 0
    /\ estimate.imageCost > 0

\* C5: when the (provider, model) pair is not priced, an estimate of the
\* current inputs is still produced, with a text cost of 0 and the image
\* cost and RAG multiplier as usual.
C5_UnpricedModelEstimated ==
    /\ (svcCall # NoCall
        /\ ~HasPricing(svcCall.args.provider, svcCall.args.model)) =>
          LET image == ImageCostOfArgs(svcCall.args)
          IN  svcCall.result =
                  IF svcCall.args.ragEnabled THEN Times12(image) ELSE image
    /\ (mounted /\ Rendered /\ bookData
        /\ ~HasPricing(selectedProvider, selectedModel)) =>
          /\ computed
          /\ estimate.textCost = 0
          /\ estimate.imageCost = ImageCostOfProps
          /\ estimate.totalCost = ImageCostOfProps

\* C6: when the chapters hold no topic at all, the computed estimate has
\* totalWords = 0 and textCost, imageCost, ragCost and totalCost all 0.
C6_ZeroTopicsAllZero ==
    (mounted /\ computed /\ SumTopics(chapters) = 0) =>
        /\ estimate.breakdown.totalWords = 0
        /\ estimate.textCost = 0
        /\ estimate.imageCost = 0
        /\ estimate.ragCost = 0
        /\ estimate.totalCost = 0

\* C7: the quotient totalCost / totalWords is never evaluated while
\* totalWords is 0 or undefined.
C7_QuotientGuarded ==
    QuotientEvaluated =>
        /\ Defined(estimate.breakdown, "totalWords")
        /\ estimate.breakdown.totalWords # 0

-----------------------------------------------------------------------------
(* Properties of analyzeStructure, checked under SpecScore *)

Bonus(c, Tags, points) ==
    IF \E i \in 1..Len(c) : c[i] \in Tags THEN points ELSE 0

\* C11: the structure score is 50 plus 15 for an h2, 15 for an h3, 10 for a
\* list (ul or ol, counted once) and 10 for a blockquote, capped at 100: 50
\* with none of them and 100 with all four.
C11_StructureScoreIsCappedSum ==
    Analyzed =>
        LET sum == 50 + Bonus(content, {"<h2>"}, 15)
                      + Bonus(content, {"<h3>"}, 15)
                      + Bonus(content, {"<ul>", "<ol>"}, 10)
                      + Bonus(content, {"<blockquote>"}, 10)
        IN  /\ metrics.structureScore = IF sum > 100 THEN 100 ELSE sum
            /\ (\A i \in 1..Len(content) : content[i] \notin Markers)
                   => metrics.structureScore = 50
            /\ (\A m \in Markers \ {"<ul>"} : \E i \in 1..Len(content) :
                    content[i] = m)
                   => metrics.structureScore = 100

\* a content with both kinds of list, both headings and a blockquote has
\* been analysed
C11_Witness ==
    /\ Analyzed
    /\ \A m \in Markers : \E i \in 1..Len(content) : content[i] = m
    /\ metrics.structureScore = 100

-----------------------------------------------------------------------------
(* Properties of AIService.calculateCost, checked under SpecSvc *)

Called == svcCall # NoCall

ExampleArgs ==
    [provider |-> "openai", model |-> "gpt-4", textTokens |-> 10000,
     images |-> 5, ragEnabled |-> FALSE]

\* C12: for a priced model the text tokens are split 30/70 into input and
\* output tokens, each priced per 1000 tokens, and the images are priced per
\* image; openai gpt-4 with 10000 tokens and 5 images without RAG costs
\* 0.51 for the text and 0.20 for the images, 0.71 USD in total (amounts in
\* nano-dollars, token counts in tenths of a token).
C12_SplitAndExample ==
    Called =>
        LET a == svcCall.args
            text == svcCall.result - ImageCostOfArgs(a)
        IN  /\ a = ExampleArgs =>
                   /\ text = 510000000
                   /\ ImageCostOfArgs(a) = 200000000
                   /\ svcCall.result = 710000000
            /\ (HasPricing(a.provider, a.model) /\ ~a.ragEnabled) =>
                   LET p == pricing[a.provider][a.model]
                       inputTokens == (a.textTokens * 30) \div 10
                       outputTokens == a.textTokens * 10 - inputTokens
                   IN  text = inputTokens * p.input + outputTokens * p.output

\* the example call has been made
C12_Witness == Called /\ svcCall.args = ExampleArgs

-----------------------------------------------------------------------------
(* Properties of generateOptimizationSuggestions, checked under SpecSuggest *)

RuleFires(k, c, m) ==
    CASE k = 1 -> m.wordCount < 300
      [] k = 2 -> m.readabilityScore < 70
      [] k = 3 -> m.structureScore < 70
      [] k = 4 -> \A i \in 1..Len(c) : c[i] # "<h3>"

RuleSuggestion(k) ==
    CASE k = 1 -> [type |-> "length", priority |-> "high"]
      [] k = 2 -> [type |-> "readability", priority |-> "medium"]
      [] k = 3 -> [type |-> "structure", priority |-> "medium"]
      [] k = 4 -> [type |-> "structure", priority |-> "low"]

\* C13: the result holds exactly one suggestion for each rule that is
\* satisfied, in the fixed order length, readability, structure,
\* subsections, whatever subset of the rules fires.
C13_OneSuggestionPerRuleInOrder ==
    sugCall # NoCall =>
        LET fired == {k \in 1..4 :
                         RuleFires(k, sugCall.content, sugCall.metrics)}
            r == sugCall.result
            \* the rule of the j-th suggestion: the j-th smallest fired rule
            nth(j) == CHOOSE k \in fired :
                          Cardinality({l \in fired : l < k}) = j - 1
        IN  /\ Len(r) = Cardinality(fired)
            /\ \A j \in 1..Len(r) : r[j] = RuleSuggestion(nth(j))

\* a call in which only the second and third rule fire
C13_Witness ==
    /\ sugCall # NoCall
    /\ {k \in 1..4 : RuleFires(k, sugCall.content, sugCall.metrics)} = {2, 3}
-----------------------------------------------------------------------------
(* Properties of the A/B testing panel, checked under SpecAB *)

Categories == 0..2   \* overall, readability, structure

\* the generation slot (0-based) a variation was made for
SlotOf(v) == v.id[2] - 1

\* C14: each "best of" box names a variation whose metric is the maximum of
\* that metric over the batch, each box on its own, and among equal maxima
\* the earliest variation.
C14_BestOfIsEarliestMaximum ==
    Len(variations) > 0 =>
        \A category \in Categories :
            LET b == BestOfPosition(category)
            IN  /\ \A q \in 1..Len(variations) :
                       ~Greater(MetricOf(variations[q], category),
                                MetricOf(variations[b], category))
                /\ \A q \in 1..(b - 1) :
                       Greater(MetricOf(variations[b], category),
                               MetricOf(variations[q], category))

\* a batch in which two variations tie for the best readability and the
\* best overall score and the best structure score belong to a later one
C14_Witness ==
    /\ Len(variations) = 3
    /\ variations[1].metrics.readabilityScore
           = variations[2].metrics.readabilityScore
    /\ BestOfPosition(1) = 1
    /\ BestOfPosition(2) = 3
    /\ BestOfPosition(0) = 3

\* C15 as stated: the variation of generation slot i carries the i-th
\* letter, also when another slot failed.
C15_LetterOfSlot ==
    \A p \in 1..Len(variations) :
        CardLabel(p) = 65 + SlotOf(variations[p])

\* C15: the cards show the variations in generation order and the k-th card
\* carries the k-th letter whatever the scores are; the variation of slot i
\* carries the i-th letter when no earlier slot failed.
C15_LettersInGenerationOrder ==
    /\ \A p, q \in 1..Len(variations) :
           p < q => SlotOf(variations[p]) < SlotOf(variations[q])
    /\ \A p \in 1..Len(variations) :
           /\ CardLabel(p) = 65 + (p - 1)
           /\ SlotOf(variations[p]) = p - 1
                  => CardLabel(p) = 65 + SlotOf(variations[p])
           /\ SlotOf(variations[p]) >= p - 1
    /\ Len(variations) = PanelVariationCount =>
           \A p \in 1..Len(variations) :
               CardLabel(p) = 65 + SlotOf(variations[p])

\* a batch whose first slot failed and whose later slots are shown, the
\* better score on the second card
C15_Witness ==
    /\ Len(variations) = 2
    /\ SlotOf(variations[1]) = 1
    /\ SlotOf(variations[2]) = 2
    /\ Greater(variations[2].metrics.overallScore,
               variations[1].metrics.overallScore)

\* C16: no two variations of a batch have the same style and temperature.
C16_DistinctStyleAndTemperature ==
    \A p, q \in 1..Len(variations) :
        p # q => <<variations[p].style, variations[p].temperature>>
                     # <<variations[q].style, variations[q].temperature>>

\* C17: a variation is selected only from a batch that is ready, never
\* while a generation is in progress, and no generation is started while
\* one is in progress.
C17_SelectOnlyWhenReady ==
    [][/\ selectedVariation' # selectedVariation
              => inFlight = 0 /\ Len(variations) > 0
       /\ inFlight' > inFlight => inFlight = 0]_vars

\* C18: a selected variation is one of the current variations.
C18_SelectedIsCurrent ==
    selectedVariation # NoSelection =>
        \E p \in 1..Len(variations) : variations[p] = selectedVariation
-----------------------------------------------------------------------------
(* Properties of the server, checked under SpecServer *)

\* C19: every vendor call made while serving a request uses the client
\* that was initialised with the key of that request.
C19_OwnKeyOnly ==
    \A r \in Requests : reqs[r].usedKeys \subseteq {KeyOf(r)}

\* C23: a call of generateWithRAG that has started to poll the run status
\* ends, by returning or throwing (the request is answered).
C23_PollingTerminates ==
    \A r \in Requests :
        (reqs[r].pc \in {"runsRetrieve", "sleep"}) ~> (reqs[r].pc = "idle")

Polling == {"queued", "in_progress"}

\* what C24 says of the request of slot r in one state
PollsAndAnswers(r) ==
    LET q == reqs[r]
    IN  /\ q.pc = "sleep" => q.runStatus \in Polling
        /\ q.pc = "messagesList" => q.runStatus = "completed"
        /\ (q.pc = "idle" /\ q.runStatus # NULL) =>
               /\ q.status = 200 <=>
                      /\ q.runStatus = "completed"
                      /\ q.latestMessage.role = "assistant"
               /\ q.status # 200 => q.status = 500

\* C24: generateWithRAG goes on polling exactly while the status is queued
\* or in_progress; it returns text only when the final status is completed
\* and the newest message is an assistant message and throws in every other
\* case; without an assistant or a thread it throws before any vendor call.
C24_PollThenReturnOrThrow ==
    [][\A r \in Requests :
          /\ PollsAndAnswers(r)'
          /\ RunsRetrieveResolves(r) =>
                 (reqs'[r].pc = "sleep" <=> reqs'[r].runStatus \in Polling)
          /\ (ArriveGenerateRag(r) /\ reqs'[r].status # 400
                /\ \E b \in Books : b \notin assistants \/ ThreadOf(b) = 0)
                 => /\ reqs'[r].pc = "idle"
                    /\ reqs'[r].status = 500
                    /\ reqs'[r].usedKeys = {}
                    /\ threadTop' = threadTop]_vars

\* a call whose run completed and that found a user message on top of the
\* thread has thrown
C24_Witness ==
    \E r \in Requests :
        /\ reqs[r].pc = "idle"
        /\ reqs[r].runStatus = "completed"
        /\ reqs[r].latestMessage.role = "user"
        /\ reqs[r].status = 500

\* C25: a generateWithRAG call that returns text returns the assistant
\* message of its own run.
C25_OwnAnswer ==
    \A r \in Requests :
        (reqs[r].status = 200 /\ reqs[r].latestMessage # NoMessage)
            => reqs[r].latestMessage = AssistantMessage(r)

\* C26: when no createBookAssistant or deleteBookAssistant call is in
\* progress the assistants and the threads registry hold the same book ids,
\* and a book whose deleteBookAssistant call succeeded is in none of the
\* three registries.
C26_RegistriesAgree ==
    [][/\ (\A r \in Requests : reqs'[r].pc = "idle")
              => assistants' = ThreadBooks'
       /\ \A r \in Requests :
              ((FilesDelSettles(r) \/ AssistantsDelResolves(r))
                  /\ reqs'[r].status = 200)
                  => reqs[r].bookId
                         \notin assistants' \cup ThreadBooks'
                                    \cup uploadedFiles']_vars
-----------------------------------------------------------------------------
(* Properties of useAutoSave, checked under SpecAutoSave *)

\* nothing is left that would call saveFunction without a further change
\* of the data or a call of manualSave
Quiescent == timers = {} /\ saving = {} /\ ~renderPending

\* C20: with the hook enabled and the browser online, a change of the data
\* is followed by a call of saveFunction with the latest data: no state is
\* reached in which the data has changed, no timer, save or re-render is
\* pending and saveFunction has not been called with the latest data.
C20_ChangeIsSaved ==
    (enabled /\ online /\ changed /\ Quiescent) => savedLatest
\* C21: whenever hasUnsavedChanges is false after a change, the data is the
\* data of the latest saveFunction call that succeeded.
C21_CleanFlagMeansSaved ==
    (changed /\ ~hasUnsavedChanges) => lastSavedData = data

-----------------------------------------------------------------------------
(* Properties of the client's generateContent, checked under SpecGenerate *)

\* C27: generateContent never rejects; it resolves to the RAG content (only
\* when the RAG request was made and answered OK), to the content of a
\* configured provider that answered OK, or to the demo content.
C27_NeverRejects ==
    genCall # NoCall =>
        LET a == genCall.args
            res == genCall.result
        IN  /\ res.settled = "resolved"
            /\ \/ /\ res.value = "rag"
                  /\ a.bookId /\ a.ragEnabled /\ "openai" \in a.apiKeys
                  /\ a.rag = "ok"
               \/ /\ res.value \in a.apiKeys \cap a.selectedModels
                  /\ a.fetch[res.value] = "ok"
               \/ res.value = "demo"

\* the RAG request failed and the request for the first configured provider
\* threw: the call has resolved to the demo content
C27_Witness ==
    /\ genCall # NoCall
    /\ genCall.args.bookId /\ genCall.args.ragEnabled
    /\ genCall.args.rag = "throws"
    /\ genCall.args.apiKeys = SelectableProviders
    /\ genCall.args.selectedModels = SelectableProviders
    /\ genCall.args.fetch["openai"] = "throws"
    /\ genCall.result = Resolved("demo")
-----------------------------------------------------------------------------
(* Properties of the BookEditor page, checked under SpecEditor *)

\* C22: when generateAllContent finishes, every topic whose generation
\* succeeded in this run has status 'completed' and the generated content in
\* the chapters state: no later update has reverted an earlier one.
C22_SucceededTopicsCompleted ==
    [][(all.pc # "idle" /\ all'.pc = "idle") =>
          \A t \in succeeded' :
             editorChapters'[t] =
                [status |-> "completed", content |-> "generated"]]_vars

\* C29: when no generateTopicContent and no generateAllContent call is
\* running, generating and generatingAll are false, generatingTopicId is null
\* and no topic has status 'generating'.
C29_NothingLeftGenerating ==
    (single.pc = "idle" /\ all.pc = "idle") =>
        /\ ~generating
        /\ ~generatingAll
        /\ generatingTopicId = 0
        /\ \A t \in EditorTopics : editorChapters[t].status # "generating"
-----------------------------------------------------------------------------
(* Properties of the ProgressTracker, checked under SpecProgress *)

\* C30: whatever the changes of isVisible and the order of the timeouts,
\* progress never decreases, status 'completed' implies that progress is 100,
\* and the steps list holds each of the seven steps at most once, in the
\* order of mockSteps.
C30_MonotoneProgressOrderedSteps ==
    [][/\ progress' >= progress
       /\ trackerStatus' = "completed" => progress' = Hundred
       /\ \A i, j \in 1..Len(steps') : i < j => steps'[i].id < steps'[j].id]_vars
====
